---- MODULE Spec2Model ----
(***************************************************************************)
(* A model of the bell scheduling engine of src/core/scheduler.py:         *)
(* the Bell record, its JSON (de)serialisation, the bells file, and the    *)
(* BellScheduler handlers (construction/load, the 1 Hz poll, add, update,  *)
(* remove).                                                                *)
(***************************************************************************)
EXTENDS Integers, Sequences, FiniteSets, TLC

VARIABLES
    phase,            \* "new" before BellScheduler(), "running" after, "failed" if __init__ raised
    bells,            \* BellScheduler.bells: sequence of Bell objects
    next_bell,        \* BellScheduler.next_bell: a Bell object or None
    seconds_to_next,  \* BellScheduler.seconds_to_next: an integer or inf
    file,             \* the content of bells_file on disk
    clk,              \* the clock values read by the last handler
    op,               \* the last handler that ran, with its arguments
    trace,            \* what the last handler did, in order (saves, signals, raise)
    failures,         \* number of writes of the bells file that have failed
    polls,            \* number of polls made in a day-long run
    fired,            \* day-long run: per list position, the clock times at which it was triggered
    player,           \* the BellPlayer object, its playback threads and the mixer
    exam,             \* the ExaminationModeWidget object and its exam timer
    zone              \* the MultiZoneController object and its zones file

\* the variables of the scheduler and of the other components
sched == <<phase, bells, next_bell, seconds_to_next, file, clk, op, trace, failures,
           polls, fired>>
others == <<player, exam, zone>>

vars == <<phase, bells, next_bell, seconds_to_next, file, clk, op, trace, failures,
          polls, fired, player, exam, zone>>

----------------------------------------------------------------------------
(* Bounds of the model *)

MaxBells == 2        \* add_bell is explored while the list is shorter than this
MaxFileRecs == 2     \* longest record list tried as the initial bells file
MaxSaveFailures == 1 \* failing writes of the bells file explored in one run
MaxDayBells == 2     \* longest bell list polled through a whole day
MaxJitterSecs == 62  \* seconds of the day followed under an inexact timer
MaxFirings == 2      \* the timer fires again in a second while no bell has fired this often

----------------------------------------------------------------------------
(* QTime / QDate: a QTime is its number of seconds since midnight;         *)
(* an invalid QTime (what QTime.fromString returns on a parse failure)     *)
(* answers -1 to hour(), minute() and second().                            *)

InvalidTime == -1
SecondsPerDay == 24 * 3600

QTime(h, m) == h * 3600 + m * 60
hour(t) == IF t = InvalidTime THEN -1 ELSE t \div 3600
minute(t) == IF t = InvalidTime THEN -1 ELSE (t % 3600) \div 60
second(t) == IF t = InvalidTime THEN -1 ELSE t % 60

DigitChar == <<"0", "1", "2", "3", "4", "5", "6", "7", "8", "9">>
TwoDigits(n) == DigitChar[(n \div 10) + 1] \o DigitChar[(n % 10) + 1]

\* QTime.toString("hh:mm"): empty for an invalid time
toString(t) ==
    IF t = InvalidTime THEN "" ELSE TwoDigits(hour(t)) \o ":" \o TwoDigits(minute(t))

\* QTime.fromString(s, "hh:mm"): two digits, a colon, two digits, in range
fromString(s) ==
    IF \E h \in 0..23, m \in 0..59 : s = TwoDigits(h) \o ":" \o TwoDigits(m)
    THEN LET hm == CHOOSE hm \in (0..23) \X (0..59) :
                       s = TwoDigits(hm[1]) \o ":" \o TwoDigits(hm[2])
         IN  QTime(hm[1], hm[2])
    ELSE InvalidTime

WeekDays == <<"Monday", "Tuesday", "Wednesday", "Thursday", "Friday", "Saturday", "Sunday">>

\* the day after d, d a weekday name
NextDay(d) ==
    LET i == CHOOSE i \in 1..7 : WeekDays[i] = d IN WeekDays[(i % 7) + 1]

\* Python's "x in list"
In(x, list) == \E i \in 1..Len(list) : list[i] = x

----------------------------------------------------------------------------
(* Bell *)

DefaultDays == <<"Monday", "Tuesday", "Wednesday", "Thursday", "Friday">>

\* Python's None for next_bell (a record, so that it compares with a Bell)
None == [obj |-> 0, name |-> "", time |-> InvalidTime, days |-> <<>>,
         enabled |-> FALSE, id |-> ""]

\* Bell.__init__; obj is the identity of the new Python object
Bell(obj, name, time, days, enabled) ==
    [obj |-> obj,
     name |-> name,
     time |-> time,
     days |-> IF days # <<>> THEN days ELSE DefaultDays,
     enabled |-> enabled,
     id |-> name \o "-" \o toString(time)]

\* Bell.to_dict: the JSON record written for a bell
to_dict(bell) ==
    [keys |-> {"name", "time", "days", "enabled", "id"},
     name |-> bell.name,
     time |-> toString(bell.time),
     days |-> bell.days,
     enabled |-> bell.enabled,
     id |-> bell.id]

\* data["name"] / data["time"] raise KeyError when the key is absent
from_dict_raises(data) == ~({"name", "time"} \subseteq data.keys)

\* Bell.from_dict, for a record that has both keys; the stored id is not read
from_dict(obj, data) ==
    Bell(obj,
         data.name,
         fromString(data.time),
         IF "days" \in data.keys THEN data.days ELSE DefaultDays,
         IF "enabled" \in data.keys THEN data.enabled ELSE TRUE)

----------------------------------------------------------------------------
(* The clock.  An instant is a weekday and a second of that day.  A handler *)
(* reads the clock several times (QTime.currentTime(), then                *)
(* QDate.currentDate(), in check_bells and again in update_next_bell); the *)
(* wall clock may move on by a second between two of its reads.            *)

After(i) ==
    IF i.secs + 1 = SecondsPerDay
    THEN [day |-> NextDay(i.day), secs |-> 0]
    ELSE [day |-> i.day, secs |-> i.secs + 1]

\* the instant seen by the j-th read of a handler that starts at instant i,
\* when the clock moves on after its k-th read (k = 0: it does not move)
ReadAt(i, k, j) == IF k # 0 /\ j > k THEN After(i) ELSE i

\* the four reads of a poll: check_bells' time and day, update_next_bell's time and day
PollReads(i, k) ==
    [time |-> ReadAt(i, k, 1).secs, day |-> ReadAt(i, k, 2).day,
     nbTime |-> ReadAt(i, k, 3).secs, nbDay |-> ReadAt(i, k, 4).day]

\* the places where the clock may move on during a poll that starts at i: the
\* weekday read changes only at the last second of a day, so elsewhere moving
\* on after read 1 is moving on after read 2, and after read 3 is not moving on
PollSkews(i) == IF i.secs = SecondsPerDay - 1 THEN 0..3 ELSE {0, 2}

\* the two reads of a mutation or of load_bells: update_next_bell's time and day
MutationReads(i, k) ==
    [time |-> i.secs, day |-> i.day,
     nbTime |-> ReadAt(i, k, 1).secs, nbDay |-> ReadAt(i, k, 2).day]

----------------------------------------------------------------------------
(* What a handler does, in order *)

Event(ev, bell, secs) == [ev |-> ev, bell |-> bell, secs |-> secs]
Saved == Event("save", None, 0)
SaveFailed == Event("save_failed", None, 0)
Raised == Event("raise", None, 0)
BellUpdated == Event("bell_updated", None, 0)
BellTriggered(bell) == Event("bell_triggered", bell, 0)
NextBellChanged(bell, secs) == Event("next_bell_changed", bell, secs)

----------------------------------------------------------------------------
(* BellScheduler: next-bell computation *)

\* float('inf'), the initial min_seconds
inf == 999999

\* a difference that is not wrapped into the next day
seconds_until_time_no_wrap(current, target) ==
    (hour(target) * 3600 + minute(target) * 60)
        - (hour(current) * 3600 + minute(current) * 60 + second(current))

seconds_until_time(current, target) ==
    LET current_secs == hour(current) * 3600 + minute(current) * 60 + second(current)
        target_secs == hour(target) * 3600 + minute(target) * 60
        diff == target_secs - current_secs
    IN  IF diff < 0 THEN diff + 24 * 3600 ELSE diff

\* a filter of active_bells that forgets the enabled flag
is_active_ignoring_enabled(bell, current_day) == In(current_day, bell.days)

\* line 156: the filter of active_bells
is_active(bell, current_day) == bell.enabled /\ In(current_day, bell.days)

active_bells(bs, current_day) == SelectSeq(bs, LAMBDA b : is_active(b, current_day))

\* a comparison that lets a later bell with the same countdown win
is_earlier_or_equal(seconds_until, min_seconds) ==
    seconds_until > 0 /\ seconds_until <= min_seconds

\* line 167: does this bell replace the candidate found so far
is_earlier(seconds_until, min_seconds) == seconds_until > 0 /\ seconds_until < min_seconds

\* lines 159-169: the loop over active_bells, from position i with candidate acc
RECURSIVE find_next(_, _, _, _)
find_next(active, current_time, i, acc) ==
    IF i > Len(active) THEN acc
    ELSE LET seconds_until == seconds_until_time(current_time, active[i].time)
         IN  find_next(active, current_time, i + 1,
                       IF is_earlier(seconds_until, acc.min_seconds)
                       THEN [next_bell |-> active[i], min_seconds |-> seconds_until]
                       ELSE acc)

\* a change test that looks at the bell only, not at the countdown
has_changed_bell_only(nb, min_seconds, stored_bell, stored_seconds) ==
    nb.obj # stored_bell.obj

\* line 172: Bell defines no __eq__, so != on bells compares object identity
has_changed(nb, min_seconds, stored_bell, stored_seconds) ==
    nb.obj # stored_bell.obj \/ min_seconds # stored_seconds

\* line 176: the signal is emitted only for a bell, not for None
emits_change(nb) == nb # None

\* update_next_bell: the new (next_bell, seconds_to_next) and the signals emitted
update_next_bell(bs, stored_bell, stored_seconds, current_time, current_day) ==
    LET r == find_next(active_bells(bs, current_day), current_time, 1,
                       [next_bell |-> None, min_seconds |-> inf])
    IN  IF has_changed(r.next_bell, r.min_seconds, stored_bell, stored_seconds)
        THEN [next_bell |-> r.next_bell, seconds_to_next |-> r.min_seconds,
              emits |-> IF emits_change(r.next_bell)
                        THEN <<NextBellChanged(r.next_bell, r.min_seconds)>> ELSE <<>>]
        ELSE [next_bell |-> stored_bell, seconds_to_next |-> stored_seconds,
              emits |-> <<>>]

----------------------------------------------------------------------------
(* BellScheduler: the trigger test of check_bells *)

\* a day test that lets every day pass
scheduled_any_day(bell, current_day) == TRUE

\* line 139
scheduled_today(bell, current_day) == In(current_day, bell.days)

\* a time test that forgets the second
time_matches_any_second(bell, current_time) ==
    /\ hour(bell.time) = hour(current_time)
    /\ minute(bell.time) = minute(current_time)

\* a time test that also accepts the second after
time_matches_or_retry(bell, current_time) ==
    /\ hour(bell.time) = hour(current_time)
    /\ minute(bell.time) = minute(current_time)
    /\ second(current_time) \in {0, 1}

\* line 143
time_matches(bell, current_time) ==
    /\ hour(bell.time) = hour(current_time)
    /\ minute(bell.time) = minute(current_time)
    /\ second(current_time) = 0

\* a loop body that forgets the time test
is_triggered_any_minute(bell, current_time, current_day) ==
    bell.enabled /\ scheduled_today(bell, current_day)

\* lines 133-144: is bell_triggered emitted for this bell
is_triggered(bell, current_time, current_day) ==
    /\ bell.enabled
    /\ scheduled_today(bell, current_day)
    /\ time_matches(bell, current_time)

\* the bell_triggered signals of one check_bells, in list order
triggers(bs, current_time, current_day) ==
    LET hit == SelectSeq(bs, LAMBDA b : is_triggered(b, current_time, current_day))
    IN  [i \in 1..Len(hit) |-> BellTriggered(hit[i])]

----------------------------------------------------------------------------
(* The bells file *)

Absent == [kind |-> "absent", recs |-> <<>>]     \* os.path.exists is false
Corrupt == [kind |-> "corrupt", recs |-> <<>>]   \* json.load raises
Records(recs) == [kind |-> "list", recs |-> recs]

\* a list comprehension that leaves the last bell out
bells_data_without_last(bs) == [i \in 1..(Len(bs) - 1) |-> to_dict(bs[i])]

\* line 123
bells_data(bs) == [i \in 1..Len(bs) |-> to_dict(bs[i])]

\* save_bells.  disk is what the file system does with the write:
\*   "ok"          the file is rewritten;
\*   "open_fails"  os.makedirs or open(..., 'w') raises, the file is untouched;
\*   "write_fails" open has truncated the file and json.dump raises part-way.
\* Nothing in save_bells catches the exception.
DiskOutcomes == {"ok", "open_fails", "write_fails"}

save_bells(bs, f, disk) ==
    CASE disk = "ok" -> [file |-> Records(bells_data(bs)), raised |-> FALSE]
      [] disk = "open_fails" -> [file |-> f, raised |-> TRUE]
      [] disk = "write_fails" -> [file |-> Corrupt, raised |-> TRUE]

\* a seed list with Break and Period 2 in the other order
default_bells_reordered ==
    << Bell(1, "School Start", QTime(9, 0), <<>>, TRUE),
       Bell(2, "Period 1", QTime(10, 30), <<>>, TRUE),
       Bell(3, "Period 2", QTime(11, 35), <<>>, TRUE),
       Bell(4, "Break", QTime(11, 20), <<>>, TRUE),
       Bell(5, "Lunch", QTime(12, 25), <<>>, TRUE),
       Bell(6, "Period 3", QTime(13, 10), <<>>, TRUE),
       Bell(7, "End of Day", QTime(14, 0), <<>>, TRUE) >>

\* lines 107-115
default_bells ==
    << Bell(1, "School Start", QTime(9, 0), <<>>, TRUE),
       Bell(2, "Period 1", QTime(10, 30), <<>>, TRUE),
       Bell(3, "Break", QTime(11, 20), <<>>, TRUE),
       Bell(4, "Period 2", QTime(11, 35), <<>>, TRUE),
       Bell(5, "Lunch", QTime(12, 25), <<>>, TRUE),
       Bell(6, "Period 3", QTime(13, 10), <<>>, TRUE),
       Bell(7, "End of Day", QTime(14, 0), <<>>, TRUE) >>

\* lines 89-100: does load_bells end in create_default_bells
\* (no file, a file json.load rejects, or a record from_dict raises on)
load_uses_defaults(f) ==
    \/ f.kind = "absent"
    \/ f.kind = "corrupt"
    \/ \E i \in 1..Len(f.recs) : from_dict_raises(f.recs[i])

\* line 96
loaded_bells(f) == [i \in 1..Len(f.recs) |-> from_dict(i, f.recs[i])]

----------------------------------------------------------------------------
(* Inputs explored *)

Names == {"A"}
BellTimes == {QTime(0, 5), QTime(9, 0)}
DayChoices == {<<>>, <<"Sunday">>}
NewBells(obj) ==
    {Bell(obj, n, t, d, e) : n \in Names, t \in BellTimes, d \in DayChoices, e \in BOOLEAN}
BellIds ==
    {n \o "-" \o toString(t) : n \in Names, t \in BellTimes}
        \cup {"School Start-09:00", "Nobody-12:00"}

\* the instants at which the timer fires
ClockDays == {"Monday", "Sunday"}
ClockSecs == {QTime(0, 5), QTime(0, 5) + 1}
LastSecond == [day |-> "Sunday", secs |-> SecondsPerDay - 1]
Instants == [day : ClockDays, secs : ClockSecs] \cup {LastSecond}
\* the instants at which the scheduler is constructed or the schedule edited
EditInstants == {[day |-> "Monday", secs |-> QTime(0, 5)]}

\* records tried in the initial bells file
FileRec(keys, name, time, days, enabled, id) ==
    [keys |-> keys, name |-> name, time |-> time, days |-> days,
     enabled |-> enabled, id |-> id]
AllKeys == {"name", "time", "days", "enabled", "id"}
FileRecs ==
    { to_dict(Bell(1, "A", QTime(0, 5), <<>>, TRUE)),
      to_dict(Bell(1, "A", QTime(9, 0), <<"Sunday">>, FALSE)),
      FileRec(AllKeys, "A", "00:05", DefaultDays, TRUE, "custom-1"),
      FileRec({"name", "time"}, "A", "09:00", <<>>, TRUE, ""),
      FileRec(AllKeys, "A", "9:00", DefaultDays, TRUE, "A-9:00"),
      FileRec(AllKeys \ {"name"}, "", "00:05", DefaultDays, TRUE, "A-00:05") }

RECURSIVE SeqsUpTo(_, _)
SeqsUpTo(S, n) ==
    IF n = 0 THEN {<<>>}
    ELSE LET shorter == SeqsUpTo(S, n - 1)
         IN  shorter \cup {Append(q, x) : q \in {r \in shorter : Len(r) = n - 1}, x \in S}

InitialFiles == {Absent, Corrupt} \cup {Records(recs) : recs \in SeqsUpTo(FileRecs, MaxFileRecs)}

\* the identity of a newly created Python object: one no live reference holds
FreshObj(bs, nb) ==
    CHOOSE n \in 1..(Len(bs) + 2) :
        /\ n # nb.obj
        /\ \A i \in 1..Len(bs) : bs[i].obj # n
        /\ \A m \in 1..(n - 1) : m = nb.obj \/ \E i \in 1..Len(bs) : bs[i].obj = m

NoOp == [name |-> "none", id |-> "", bell |-> None, disk |-> "ok"]
Op(name, id, bell, disk) == [name |-> name, id |-> id, bell |-> bell, disk |-> disk]

----------------------------------------------------------------------------
(* The other components, as their constructors leave them.  The scheduler   *)
(* holds no reference to them and they hold none to it.                     *)

\* BellPlayer.__init__ (bell_player.py lines 21-27); no thread, a silent mixer
PlayerInit ==
    [playing |-> FALSE, stop_flag |-> FALSE, play_thread |-> 0, busy |-> FALSE,
     main |-> "idle", threads |-> <<>>]

\* ExaminationModeWidget.__init__ (examination_mode.py lines 428-434); the
\* configure button is enabled, no warning bell has been played
ExamInit ==
    [exam_config |-> [duration |-> 0, warning_bell |-> 0], configured |-> FALSE,
     exam_timer |-> FALSE, seconds_left |-> 0, running |-> FALSE,
     warning_played |-> FALSE, configure_enabled |-> TRUE, warnings |-> 0]

\* MultiZoneController before __init__ loads (multi_zone_controller.py lines
\* 65-68): an empty dict, and no zones file
ZoneInit == [zones |-> <<>>, zones_file |-> Absent, ops |-> 0]

OthersIdle == player = PlayerInit /\ exam = ExamInit /\ zone = ZoneInit

----------------------------------------------------------------------------
(* The scheduler *)

\* the process before BellScheduler() is called: lines 75-77 give the fields
\* their first values, whatever bells file the disk holds
Init ==
    /\ phase = "new"
    /\ bells = <<>>
    /\ next_bell = None
    /\ seconds_to_next = 0
    /\ file \in InitialFiles
    /\ clk = [time |-> 0, day |-> "Monday", nbTime |-> 0, nbDay |-> "Monday"]
    /\ op = NoOp
    /\ trace = <<>>
    /\ failures = 0
    /\ polls = 0
    /\ fired = <<>>
    /\ OthersIdle

\* __init__ / load_bells (lines 72-103)
Construct(i, k, disk) ==
    /\ phase = "new"
    /\ op' = Op("load_bells", "", None, disk)
    /\ UNCHANGED <<polls, fired, player, exam, zone>>
    /\ IF load_uses_defaults(file)
       THEN LET s == save_bells(default_bells, file, disk)
            IN  /\ bells' = default_bells
                /\ file' = s.file
                /\ failures' = IF s.raised THEN failures + 1 ELSE failures
                /\ IF s.raised
                   THEN /\ phase' = "failed"
                        /\ trace' = <<SaveFailed, Raised>>
                        /\ UNCHANGED <<next_bell, seconds_to_next, clk>>
                   ELSE LET c == MutationReads(i, k)
                            r == update_next_bell(default_bells, next_bell, seconds_to_next,
                                                  c.nbTime, c.nbDay)
                        IN  /\ phase' = "running"
                            /\ clk' = c
                            /\ next_bell' = r.next_bell
                            /\ seconds_to_next' = r.seconds_to_next
                            /\ trace' = <<Saved>> \o r.emits
       ELSE LET c == MutationReads(i, k)
                bs == loaded_bells(file)
                r == update_next_bell(bs, next_bell, seconds_to_next, c.nbTime, c.nbDay)
            IN  /\ disk = "ok"
                /\ bells' = bs
                /\ phase' = "running"
                /\ clk' = c
                /\ next_bell' = r.next_bell
                /\ seconds_to_next' = r.seconds_to_next
                /\ trace' = r.emits
                /\ UNCHANGED <<file, failures>>

\* check_bells (lines 128-148), the handler of the 1 Hz timer
check_bells(i, k) ==
    LET c == PollReads(i, k)
        r == update_next_bell(bells, next_bell, seconds_to_next, c.nbTime, c.nbDay)
    IN  /\ clk' = c
        /\ next_bell' = r.next_bell
        /\ seconds_to_next' = r.seconds_to_next
        /\ trace' = triggers(bells, c.time, c.day) \o r.emits
        /\ UNCHANGED <<phase, bells, file, failures, player, exam, zone>>

Poll(i, k) ==
    /\ phase = "running"
    /\ op' = Op("check_bells", "", None, "ok")
    /\ check_bells(i, k)
    /\ UNCHANGED <<polls, fired>>

\* a tail that emits bell_updated before it saves and recomputes
mutation_steps_updated_first(emits) == <<BellUpdated, Saved>> \o emits

\* lines 197-199 (208-210, 215-217): what a mutation does after it has changed
\* the list, in order; emits are the signals of update_next_bell
mutation_steps(emits) == <<Saved>> \o emits \o <<BellUpdated>>

\* the common tail of add_bell, update_bell and remove_bell:
\* save_bells(); update_next_bell(); bell_updated.emit()
save_and_update(bs, i, k, disk) ==
    LET s == save_bells(bs, file, disk)
    IN  /\ bells' = bs
        /\ file' = s.file
        /\ failures' = IF s.raised THEN failures + 1 ELSE failures
        /\ UNCHANGED <<phase, polls, fired, player, exam, zone>>
        /\ IF s.raised
           THEN /\ trace' = <<SaveFailed, Raised>>
                /\ UNCHANGED <<next_bell, seconds_to_next, clk>>
           ELSE LET c == MutationReads(i, k)
                    r == update_next_bell(bs, next_bell, seconds_to_next, c.nbTime, c.nbDay)
                IN  /\ clk' = c
                    /\ next_bell' = r.next_bell
                    /\ seconds_to_next' = r.seconds_to_next
                    /\ trace' = mutation_steps(r.emits)

\* lines 194-199
add_bell(bell, i, k, disk) ==
    /\ phase = "running"
    /\ Len(bells) < MaxBells
    /\ op' = Op("add_bell", bell.id, bell, disk)
    /\ save_and_update(Append(bells, bell), i, k, disk)

\* lines 203-206: the list with the first bell of that id replaced
replace_first(bs, bell_id, updated_bell) ==
    IF \E j \in 1..Len(bs) : bs[j].id = bell_id
    THEN LET first == CHOOSE j \in 1..Len(bs) :
                          bs[j].id = bell_id /\ \A m \in 1..(j - 1) : bs[m].id # bell_id
         IN  [bs EXCEPT ![first] = updated_bell]
    ELSE bs

\* lines 201-210
update_bell(bell_id, updated_bell, i, k, disk) ==
    /\ phase = "running"
    /\ op' = Op("update_bell", bell_id, updated_bell, disk)
    /\ save_and_update(replace_first(bells, bell_id, updated_bell), i, k, disk)

\* line 214
without_id(bs, bell_id) == SelectSeq(bs, LAMBDA b : b.id # bell_id)

\* lines 212-217
remove_bell(bell_id, i, k, disk) ==
    /\ phase = "running"
    /\ op' = Op("remove_bell", bell_id, None, disk)
    /\ save_and_update(without_id(bells, bell_id), i, k, disk)

\* the scheduler on a disk whose writes succeed
Next ==
    \/ \E i \in EditInstants, k \in 0..1 : Construct(i, k, "ok")
    \/ \E i \in Instants : \E k \in PollSkews(i) : Poll(i, k)
    \/ \E i \in EditInstants, k \in 0..1 :
           \E bell \in NewBells(FreshObj(bells, next_bell)) : add_bell(bell, i, k, "ok")
    \/ \E i \in EditInstants, k \in 0..1, bell_id \in BellIds :
           \E bell \in NewBells(FreshObj(bells, next_bell)) :
               update_bell(bell_id, bell, i, k, "ok")
    \/ \E i \in EditInstants, k \in 0..1, bell_id \in BellIds :
           remove_bell(bell_id, i, k, "ok")

Spec == Init /\ [][Next]_vars

----------------------------------------------------------------------------
(* The scheduler on a disk whose writes may fail, on fewer inputs *)

\* a record whose days list is present and empty
EmptyDaysRec == FileRec(AllKeys, "A", "00:05", <<>>, TRUE, "A-00:05")

FaultFiles ==
    {Absent, Corrupt,
     Records(<<to_dict(Bell(1, "A", QTime(0, 5), <<>>, TRUE))>>),
     Records(<<FileRec(AllKeys \ {"name"}, "", "00:05", DefaultDays, TRUE, "A-00:05")>>),
     Records(<<EmptyDaysRec>>)}
\* a QTime with seconds, as QTime.currentTime() or a QTimeEdit gives
HalfPast == QTime(0, 5) + 30
FaultBells(obj) == {Bell(obj, "A", t, <<>>, TRUE) : t \in BellTimes \cup {HalfPast}}
FaultIds == {"A-00:05", "School Start-09:00", "Nobody-12:00"}
FaultInstants ==
    {[day |-> "Monday", secs |-> QTime(0, 5)],
     [day |-> "Monday", secs |-> QTime(23, 59)],
     [day |-> "Wednesday", secs |-> QTime(9, 0)],
     LastSecond}

\* what the disk may do with the next write
Disk == IF failures < MaxSaveFailures THEN DiskOutcomes ELSE {"ok"}

FaultInit ==
    /\ phase = "new"
    /\ bells = <<>>
    /\ next_bell = None
    /\ seconds_to_next = 0
    /\ file \in FaultFiles
    /\ clk = [time |-> 0, day |-> "Monday", nbTime |-> 0, nbDay |-> "Monday"]
    /\ op = NoOp
    /\ trace = <<>>
    /\ failures = 0
    /\ polls = 0
    /\ fired = <<>>
    /\ OthersIdle

FaultNext ==
    \/ \E i \in EditInstants, k \in 0..1, disk \in Disk : Construct(i, k, disk)
    \/ \E i \in FaultInstants : \E k \in PollSkews(i) : Poll(i, k)
    \/ \E i \in EditInstants, k \in 0..1, disk \in Disk :
           \E bell \in FaultBells(FreshObj(bells, next_bell)) : add_bell(bell, i, k, disk)
    \/ \E i \in EditInstants, k \in 0..1, disk \in Disk, bell_id \in FaultIds :
           \E bell \in FaultBells(FreshObj(bells, next_bell)) :
               update_bell(bell_id, bell, i, k, disk)
    \/ \E i \in EditInstants, k \in 0..1, disk \in Disk, bell_id \in FaultIds :
           remove_bell(bell_id, i, k, disk)

FaultSpec == FaultInit /\ [][FaultNext]_vars

----------------------------------------------------------------------------
(* A whole day of polling: the timer fires once in every second of one      *)
(* weekday, from 00:00:00 to 23:59:59, and nothing edits the schedule.      *)
(* polls is the second of the day the next poll falls in; fired collects,   *)
(* per list position, the clock times at which that bell was triggered.     *)

DayBells ==
    { Bell(1, "A", QTime(0, 0), <<>>, TRUE),
      Bell(1, "A", QTime(23, 59), <<"Sunday">>, TRUE) }
RunDays == {"Monday"}
DayLists ==
    LET raw == SeqsUpTo(DayBells, MaxDayBells) \ {<<>>}
    IN  {[i \in 1..Len(q) |-> [q[i] EXCEPT !.obj = i]] : q \in raw}

PrevDay(d) == CHOOSE p \in {WeekDays[i] : i \in 1..7} : NextDay(p) = d

\* the bell_triggered signals of a handler's trace that carry the object b
TriggersOf(tr, b) ==
    SelectSeq(tr, LAMBDA e : e.ev = "bell_triggered" /\ e.bell.obj = b.obj)

\* the scheduler was constructed in the last second of the day before
DayInit ==
    /\ phase = "running"
    /\ bells \in DayLists
    /\ file = Records(bells_data(bells))
    /\ \E d \in RunDays :
          LET r == update_next_bell(bells, None, 0, SecondsPerDay - 1, PrevDay(d))
          IN  /\ clk = [time |-> SecondsPerDay - 1, day |-> d,
                        nbTime |-> SecondsPerDay - 1, nbDay |-> PrevDay(d)]
              /\ next_bell = r.next_bell
              /\ seconds_to_next = r.seconds_to_next
              /\ trace = r.emits
    /\ op = Op("load_bells", "", None, "ok")
    /\ failures = 0
    /\ polls = 0
    /\ fired = [i \in 1..Len(bells) |-> <<>>]
    /\ OthersIdle

\* the weekday of a day-long run: the first clk holds it, then op carries it
RunDay == IF polls = 0 THEN clk.day ELSE op.id

DayPoll(k) ==
    /\ phase = "running"
    /\ polls < SecondsPerDay
    /\ op' = Op("check_bells", RunDay, None, "ok")
    /\ check_bells([day |-> RunDay, secs |-> polls], k)
    /\ polls' = polls + 1
    /\ fired' = [i \in 1..Len(bells) |->
                    fired[i] \o [j \in 1..Len(TriggersOf(trace', bells[i])) |-> clk'.time]]

DayNext == \E k \in PollSkews([day |-> RunDay, secs |-> polls]) : DayPoll(k)

DaySpec == DayInit /\ [][DayNext]_vars

----------------------------------------------------------------------------
(* An inexact timer.  check_timer is a QTimer of 1000 ms (line 82): its      *)
(* timeouts are not tied to the seconds of the wall clock, so a second may   *)
(* pass without a timeout (the event loop was busy, the process suspended)   *)
(* and two timeouts may fall in one second.  The first seconds of the day    *)
(* are followed; polls is the second the next timeout is due in.             *)

\* the timeout of this second is delivered
JitterPoll(k) == polls < MaxJitterSecs /\ DayPoll(k)

\* a second timeout is delivered in the second the last poll was made in
SecondPoll(k) ==
    /\ phase = "running"
    /\ polls >= 1
    /\ op.name = "check_bells"
    /\ \A i \in 1..Len(bells) : Len(fired[i]) < MaxFirings
    /\ op' = Op("check_bells", RunDay, None, "ok")
    /\ check_bells([day |-> RunDay, secs |-> polls - 1], k)
    /\ fired' = [i \in 1..Len(bells) |->
                    fired[i] \o [j \in 1..Len(TriggersOf(trace', bells[i])) |-> clk'.time]]
    /\ UNCHANGED polls

\* no timeout is delivered in this second: no handler runs
MissedTick ==
    /\ phase = "running"
    /\ polls < MaxJitterSecs
    /\ op' = Op("missed_tick", RunDay, None, "ok")
    /\ trace' = <<>>
    /\ polls' = polls + 1
    /\ UNCHANGED <<phase, bells, next_bell, seconds_to_next, file, clk, failures, fired,
                   player, exam, zone>>

JitterNext ==
    \/ \E k \in PollSkews([day |-> RunDay, secs |-> polls]) : JitterPoll(k)
    \/ \E k \in {0, 2} : SecondPoll(k)
    \/ MissedTick

JitterSpec == DayInit /\ [][JitterNext]_vars

----------------------------------------------------------------------------
(* The scheduler left aside: no BellScheduler is constructed *)

NoScheduler ==
    /\ phase = "new"
    /\ bells = <<>>
    /\ next_bell = None
    /\ seconds_to_next = 0
    /\ file = Absent
    /\ clk = [time |-> 0, day |-> "Monday", nbTime |-> 0, nbDay |-> "Monday"]
    /\ op = NoOp
    /\ trace = <<>>
    /\ failures = 0
    /\ polls = 0
    /\ fired = <<>>

----------------------------------------------------------------------------
(* BellPlayer (src/core/bell_player.py).  play_bell and stop_playback run on  *)
(* the caller's thread; every play_bell starts a thread that runs            *)
(* _play_bell_thread.  player.threads[t] is the position of thread t:        *)
(*   "created"   started, has not run yet                                    *)
(*   "entered"   has set playing (line 96)                                   *)
(*   "started"   has emitted playback_started (line 97)                      *)
(*   "sounding"  has called pygame.mixer.music.play() and is in a wait loop  *)
(*   "left"      has left the wait loop                                      *)
(*   "caught"    an exception was raised after playback_started              *)
(*   "cleared"   has reset playing (line 134 or 138)                         *)
(*   "done"      has emitted playback_stopped or playback_error              *)
(* player.busy is pygame.mixer.music.get_busy(): one mixer for all threads.  *)
(* player.main is where the caller's thread is: "idle", or inside the        *)
(* join(1) of a stop_playback called directly ("stop_join") or from          *)
(* play_bell ("play_join").                                                  *)

\* play_bell is explored while fewer threads than this have been started
MaxThreads == 3

\* threading.Thread.is_alive of player.play_thread
is_alive(p) == p.play_thread # 0 /\ p.threads[p.play_thread] # "done"

\* stop_playback lines 160-161: stop_flag, pygame.mixer.music.stop()
stop_begin(p) == [p EXCEPT !.stop_flag = TRUE, !.busy = FALSE]

\* stop_playback line 167, after the join or without one
stop_end(p) == [p EXCEPT !.playing = FALSE, !.main = "idle"]

\* play_bell lines 85-91: reset stop_flag, create and start the thread
start_thread(p) ==
    [p EXCEPT !.stop_flag = FALSE,
              !.threads = Append(@, "created"),
              !.play_thread = Len(p.threads) + 1,
              !.main = "idle"]

PlayerStep(p) == player' = p /\ UNCHANGED <<sched, exam, zone>>

\* play_bell, up to its return or to the join of its stop_playback
play_bell ==
    /\ player.main = "idle"
    /\ Len(player.threads) < MaxThreads
    /\ IF player.playing
       THEN LET q == stop_begin(player)
            IN  IF is_alive(q)
                THEN PlayerStep([q EXCEPT !.main = "play_join"])
                ELSE PlayerStep(start_thread(stop_end(q)))
       ELSE PlayerStep(start_thread(player))

\* stop_playback called while playing is set, up to its return or to its join
stop_playback ==
    /\ player.main = "idle"
    /\ player.playing
    /\ LET q == stop_begin(player)
       IN  IF is_alive(q)
           THEN PlayerStep([q EXCEPT !.main = "stop_join"])
           ELSE PlayerStep(stop_end(q))

\* play_thread.join(1) returns: the thread has ended, or the second is over
\* and it has not; stop_playback then resets playing, and play_bell goes on
join_returns(timed_out) ==
    /\ player.main \in {"play_join", "stop_join"}
    /\ timed_out = is_alive(player)
    /\ IF player.main = "play_join"
       THEN PlayerStep(start_thread(stop_end(player)))
       ELSE PlayerStep(stop_end(player))

Moves(t, from, to) ==
    /\ t \in 1..Len(player.threads)
    /\ player.threads[t] = from
    /\ PlayerStep([player EXCEPT !.threads[t] = to])

\* line 96: self.playing = True
thread_enters(t) ==
    /\ t \in 1..Len(player.threads)
    /\ player.threads[t] = "created"
    /\ PlayerStep([player EXCEPT !.threads[t] = "entered", !.playing = TRUE])

\* line 97: playback_started.emit
thread_announces(t) == Moves(t, "entered", "started")

\* lines 99-122: load, set_volume, text to speech, pygame.mixer.music.play()
thread_plays(t) ==
    /\ t \in 1..Len(player.threads)
    /\ player.threads[t] = "started"
    /\ PlayerStep([player EXCEPT !.threads[t] = "sounding", !.busy = TRUE])

\* lines 99-122 raise (pygame.mixer.music.load on a missing or broken file)
thread_raises(t) == Moves(t, "started", "caught")

\* lines 128 / 132: the wait loop ends when the mixer is silent or stop_flag set
thread_leaves_loop(t) ==
    /\ ~(player.busy /\ ~player.stop_flag)
    /\ Moves(t, "sounding", "left")

\* lines 134 / 138: self.playing = False
thread_clears(t) ==
    /\ t \in 1..Len(player.threads)
    /\ player.threads[t] \in {"left", "caught"}
    /\ PlayerStep([player EXCEPT !.threads[t] = "cleared", !.playing = FALSE])

\* lines 135 / 141: playback_stopped.emit or playback_error.emit
thread_ends(t) == Moves(t, "cleared", "done")

\* the sound comes to its end
music_ends ==
    /\ player.busy
    /\ PlayerStep([player EXCEPT !.busy = FALSE])

PlayerSpecInit == NoScheduler /\ OthersIdle

PlayerNext ==
    \/ play_bell
    \/ stop_playback
    \/ \E timed_out \in BOOLEAN : join_returns(timed_out)
    \/ \E t \in 1..MaxThreads : thread_enters(t)
    \/ \E t \in 1..MaxThreads : thread_announces(t)
    \/ \E t \in 1..MaxThreads : thread_plays(t)
    \/ \E t \in 1..MaxThreads : thread_raises(t)
    \/ \E t \in 1..MaxThreads : thread_leaves_loop(t)
    \/ \E t \in 1..MaxThreads : thread_clears(t)
    \/ \E t \in 1..MaxThreads : thread_ends(t)
    \/ music_ends

PlayerSpec == PlayerSpecInit /\ [][PlayerNext]_vars

\* thread t is between its playback_started and its playback_stopped or
\* playback_error
LivePlayback(t) == player.threads[t] \in {"started", "sounding", "left", "caught", "cleared"}

----------------------------------------------------------------------------
(* Examination mode (src/ui/examination_mode.py): ExaminationModeWidget      *)
(* with its exam timer (an ExamTimerWidget).  exam.configured says           *)
(* exam_config is not None, exam.exam_timer says exam_timer is not None;     *)
(* seconds_left and running are the fields of the exam timer.  exam.warnings *)
(* counts the calls of play_warning_bell since configure_exam.  Exams        *)
(* without reading time are followed: the reading timer touches neither      *)
(* warning_played nor the exam timer's seconds.                              *)

\* the exam timer is started again while fewer warning bells than this were played
MaxWarnings == 2

\* ExamConfigDialog.get_config: duration and warning_bell, in minutes
\* (warning_bell is 0 when the warning box is not checked)
ExamConfigs == [duration : {1, 2}, warning_bell : {0, 1}]

ExamStep(e) == exam' = e /\ UNCHANGED <<sched, player, zone>>

\* clear_timers, lines 606-619
clear_timers(e) == [e EXCEPT !.exam_timer = FALSE, !.running = FALSE, !.warning_played = FALSE]

\* ExamTimerWidget.reset_timer, lines 242-251
reset_timer(e) ==
    [e EXCEPT !.seconds_left = e.exam_config.duration * 60, !.running = FALSE]

\* ExamTimerWidget.start_timer, lines 224-233
start_timer(e) ==
    LET r == IF e.seconds_left = 0 THEN reset_timer(e) ELSE e
    IN  [r EXCEPT !.running = TRUE]

\* configure_exam, lines 543-604, the dialog accepted with config
configure_exam(config, auto_start) ==
    /\ exam.configure_enabled
    /\ LET c == clear_timers([exam EXCEPT !.exam_config = config, !.configured = TRUE])
           t == [c EXCEPT !.exam_timer = TRUE,
                          !.seconds_left = config.duration * 60,
                          !.running = FALSE,
                          !.configure_enabled = FALSE,
                          !.warnings = 0]
       IN  ExamStep(IF auto_start THEN start_timer(t) ELSE t)

\* update_clock, lines 532-541, the handler of the 1 s clock timer
update_clock ==
    IF /\ exam.configured /\ exam.exam_timer /\ ~exam.warning_played
       /\ exam.seconds_left <= exam.exam_config.warning_bell * 60
       /\ exam.exam_config.warning_bell > 0
    THEN ExamStep([exam EXCEPT !.warnings = @ + 1, !.warning_played = TRUE])
    ELSE ExamStep(exam)

\* ExamTimerWidget.update_timer, lines 150-162, the handler of the exam
\* timer's timeout; at 0 it stops and on_exam_complete runs (lines 633-646),
\* which resets warning_played (line 643)
update_timer ==
    /\ exam.exam_timer
    /\ exam.running
    /\ IF exam.seconds_left > 0
       THEN ExamStep([exam EXCEPT !.seconds_left = @ - 1])
       ELSE ExamStep([exam EXCEPT !.running = FALSE,
                                  !.warning_played = FALSE])

\* the start button of the exam timer (enabled while it is not running)
press_start ==
    /\ exam.exam_timer
    /\ ~exam.running
    /\ exam.warnings < MaxWarnings
    /\ ExamStep(start_timer(exam))

\* the pause button of the exam timer (enabled while it is running)
press_pause ==
    /\ exam.exam_timer
    /\ exam.running
    /\ ExamStep([exam EXCEPT !.running = FALSE])

\* the reset button of the exam timer
press_reset ==
    /\ exam.exam_timer
    /\ ExamStep(reset_timer(exam))

\* exit_exam_mode, lines 706-731 (the exit button is enabled once configured)
exit_exam_mode ==
    /\ ~exam.configure_enabled
    /\ ExamStep([clear_timers(exam) EXCEPT !.configure_enabled = TRUE, !.warnings = 0])

ExamSpecInit == NoScheduler /\ OthersIdle

ExamNext ==
    \/ \E config \in ExamConfigs, auto_start \in BOOLEAN : configure_exam(config, auto_start)
    \/ update_clock
    \/ update_timer
    \/ press_start
    \/ press_pause
    \/ press_reset
    \/ exit_exam_mode

ExamSpec == ExamSpecInit /\ [][ExamNext]_vars

----------------------------------------------------------------------------
(* Zones (src/core/multi_zone_controller.py).  zone.zones is the dict        *)
(* MultiZoneController.zones in insertion order, a sequence of               *)
(* [key, zone] entries; zone.zones_file is data/zones.json; zone.ops counts  *)
(* the calls made since construction.  A Zone carries the fields name, id    *)
(* and enabled; writes of the zones file succeed.                            *)

\* the calls of add_zone, update_zone, remove_zone and enable_zone followed
MaxZoneOps == 3

\* name.lower().replace(' ', '_') of Zone.__init__ line 11, for the names used
slug(name) ==
    CASE name = "Main Building" -> "main_building"
      [] name = "Cafeteria" -> "cafeteria"
      [] name = "Gym" -> "gym"
      [] name = "gym" -> "gym"
      [] name = "Playground" -> "playground"
      [] name = "Administration" -> "administration"
      [] name = "Lab" -> "lab"

\* Zone.__init__, lines 8-17; id "" stands for every falsy id (None, "")
Zone(name, id, enabled) ==
    [name |-> name,
     id |-> IF id # "" THEN id ELSE "zone_" \o slug(name),
     enabled |-> enabled]

\* Zone.to_dict, lines 19-30
zone_to_dict(z) == [name |-> z.name, id |-> z.id, enabled |-> z.enabled]

\* Zone.from_dict, lines 32-44
zone_from_dict(data) == Zone(data.name, data.id, data.enabled)

ZoneKeys(zs) == {zs[i].key : i \in 1..Len(zs)}

\* zones[key], for a key of zones
ZoneAt(zs, key) == (CHOOSE i \in 1..Len(zs) : zs[i].key = key)

\* self.zones[key] = z: an existing key keeps its place, a new key goes last
zones_set(zs, key, z) ==
    IF key \in ZoneKeys(zs)
    THEN [zs EXCEPT ![ZoneAt(zs, key)] = [key |-> key, zone |-> z]]
    ELSE Append(zs, [key |-> key, zone |-> z])

\* del self.zones[key]
zones_del(zs, key) == SelectSeq(zs, LAMBDA e : e.key # key)

RECURSIVE load_records(_, _)
\* the loop of load_zones, lines 86-88
load_records(zs, recs) ==
    IF recs = <<>> THEN zs
    ELSE LET z == zone_from_dict(Head(recs))
         IN  load_records(zones_set(zs, z.id, z), Tail(recs))

\* load_zones, lines 77-92: an absent file and a file json.load rejects
\* leave zones as it is
load_zones(zs, f) ==
    IF f.kind = "list" THEN load_records(zs, f.recs) ELSE zs

\* what save_zones writes, lines 94-106
zones_data(zs) == Records([i \in 1..Len(zs) |-> zone_to_dict(zs[i].zone)])

\* create_default_zones, lines 108-141, before its save
default_zones ==
    LET names == <<"Main Building", "Cafeteria", "Gym", "Playground", "Administration">>
        zs == [i \in 1..Len(names) |-> Zone(names[i], "", TRUE)]
    IN  [i \in 1..Len(names) |-> [key |-> zs[i].id, zone |-> zs[i]]]

\* MultiZoneController.__init__, lines 65-75, on the zones file f
controller(f) ==
    LET loaded == load_zones(<<>>, f)
    IN  IF loaded = <<>>
        THEN [zones |-> default_zones, zones_file |-> zones_data(default_zones), ops |-> 0]
        ELSE [zones |-> loaded, zones_file |-> f, ops |-> 0]

\* zones files found at start-up
ZoneFiles ==
    { Absent, Corrupt, Records(<<>>),
      Records(<<[name |-> "Gym", id |-> "zone_gym", enabled |-> TRUE]>>),
      Records(<<[name |-> "Gym", id |-> "", enabled |-> FALSE],
                [name |-> "Lab", id |-> "hall", enabled |-> TRUE]>>),
      Records(<<[name |-> "Gym", id |-> "zone_gym", enabled |-> TRUE],
                [name |-> "gym", id |-> "", enabled |-> TRUE]>>) }

\* the Zone objects handed to add_zone and update_zone
NewZones == {Zone(name, id, TRUE) : name \in {"Gym", "Lab"}, id \in {"", "hall", "zone_gym"}}

\* the zone ids handed to update_zone, remove_zone and enable_zone
ZoneIdArgs == ZoneKeys(zone.zones) \cup {"zone_none"}

\* the controller after a call that left zones as zs and saved
ZoneSaved(zs) ==
    /\ zone' = [zones |-> zs, zones_file |-> zones_data(zs), ops |-> zone.ops + 1]
    /\ UNCHANGED <<sched, player, exam>>

\* add_zone, lines 143-154
add_zone(z) ==
    /\ zone.ops < MaxZoneOps
    /\ ZoneSaved(zones_set(zone.zones, z.id, z))

\* update_zone, lines 155-161
update_zone(zone_id, updated_zone) ==
    /\ zone.ops < MaxZoneOps
    /\ IF zone_id \in ZoneKeys(zone.zones)
       THEN ZoneSaved(zones_set(zone.zones, zone_id, updated_zone))
       ELSE UNCHANGED vars

\* remove_zone, lines 163-168
remove_zone(zone_id) ==
    /\ zone.ops < MaxZoneOps
    /\ IF zone_id \in ZoneKeys(zone.zones)
       THEN ZoneSaved(zones_del(zone.zones, zone_id))
       ELSE UNCHANGED vars

\* enable_zone, lines 170-175
enable_zone(zone_id, enabled) ==
    /\ zone.ops < MaxZoneOps
    /\ IF zone_id \in ZoneKeys(zone.zones)
       THEN LET z == zone.zones[ZoneAt(zone.zones, zone_id)].zone
            IN  ZoneSaved(zones_set(zone.zones, zone_id, [z EXCEPT !.enabled = enabled]))
       ELSE UNCHANGED vars

ZoneSpecInit ==
    /\ NoScheduler
    /\ player = PlayerInit
    /\ exam = ExamInit
    /\ zone \in {controller(f) : f \in ZoneFiles}

ZoneNext ==
    \/ \E z \in NewZones : add_zone(z)
    \/ \E zone_id \in ZoneIdArgs, z \in NewZones : update_zone(zone_id, z)
    \/ \E zone_id \in ZoneIdArgs : remove_zone(zone_id)
    \/ \E zone_id \in ZoneIdArgs, enabled \in BOOLEAN : enable_zone(zone_id, enabled)

ZoneSpec == ZoneSpecInit /\ [][ZoneNext]_vars

----------------------------------------------------------------------------
(* Properties *)

HasEvent(tr, ev) == \E j \in 1..Len(tr) : tr[j].ev = ev

\* the last handler ran update_next_bell: it is load_bells, the poll or a
\* mutation, and it did not raise before reaching it
Recomputed ==
    /\ op.name \in {"load_bells", "check_bells", "add_bell", "update_bell", "remove_bell"}
    /\ ~HasEvent(trace, "raise")

IsMutation(o) == o.name \in {"add_bell", "update_bell", "remove_bell"}

\* C1. Exactly-once firing: through a day of one poll per second on weekday W,
\* an enabled bell whose days contain W is triggered exactly once, on the poll
\* whose hour and minute are the bell's and whose second is 0: before that poll
\* it has not been triggered, from that poll on it has been triggered once, at
\* that clock time, and at the end of the day the count is one.
ExactlyOnceFiring ==
    \A i \in 1..Len(bells) :
        (bells[i].enabled /\ In(RunDay, bells[i].days)) =>
            /\ Len(fired[i]) <= 1
            /\ \A j \in 1..Len(fired[i]) :
                   /\ hour(fired[i][j]) = hour(bells[i].time)
                   /\ minute(fired[i][j]) = minute(bells[i].time)
                   /\ second(fired[i][j]) = 0
            /\ (polls > bells[i].time) => Len(fired[i]) = 1
            /\ (polls = SecondsPerDay) => Len(fired[i]) = 1

\* C1 witness: the day is over and a bell enabled for that weekday has fired once
ExactlyOnceFiringWitness ==
    /\ polls = SecondsPerDay
    /\ \E i \in 1..Len(bells) :
           /\ bells[i].enabled
           /\ In(RunDay, bells[i].days)
           /\ fired[i] = <<bells[i].time>>

\* the positions of the bells of bs that can be the next bell at the clock
\* reading c: enabled, scheduled on the weekday read, with a strictly positive
\* countdown
CandidatesAt(bs, c) ==
    {i \in 1..Len(bs) :
        /\ bs[i].enabled
        /\ In(c.nbDay, bs[i].days)
        /\ seconds_until_time(c.nbTime, bs[i].time) > 0}

\* the same for the bell list and the clock of the last recomputation
CountdownOf(i) == seconds_until_time(clk.nbTime, bells[i].time)
Candidates == CandidatesAt(bells, clk)

\* C2. Next-bell selection: after every recomputation next_bell is the bell of
\* minimum strictly positive countdown among the enabled bells scheduled today,
\* the first in the list among equals, and it is None exactly when there is no
\* such bell.
NextBellSelection ==
    Recomputed =>
        IF Candidates = {}
        THEN next_bell = None
        ELSE \E i \in Candidates :
                 /\ next_bell = bells[i]
                 /\ \A j \in Candidates :
                        /\ CountdownOf(j) >= CountdownOf(i)
                        /\ (CountdownOf(j) = CountdownOf(i)) => j >= i

\* C2 witness: two candidates tie for the minimum and the earlier one is kept
NextBellSelectionWitness ==
    /\ Recomputed
    /\ \E i, j \in Candidates :
           /\ i < j
           /\ CountdownOf(i) = CountdownOf(j)
           /\ \A m \in Candidates : CountdownOf(m) >= CountdownOf(i)
           /\ next_bell = bells[i]

\* C3. Day filtering: in a poll, a bell whose days do not contain the weekday
\* read emits no bell_triggered, whatever the time read.
DayFiltering ==
    (op.name = "check_bells") =>
        \A i \in 1..Len(bells) :
            ~In(clk.day, bells[i].days) => TriggersOf(trace, bells[i]) = <<>>

\* C3 witness: a poll at an enabled bell's minute, second 0, on a day that is
\* not one of its days, and the bell is not triggered
DayFilteringWitness ==
    /\ op.name = "check_bells"
    /\ \E i \in 1..Len(bells) :
           /\ bells[i].enabled
           /\ ~In(clk.day, bells[i].days)
           /\ hour(bells[i].time) = hour(clk.time)
           /\ minute(bells[i].time) = minute(clk.time)
           /\ second(clk.time) = 0
           /\ TriggersOf(trace, bells[i]) = <<>>

\* C4. A disabled bell emits no bell_triggered in any handler, and after every
\* recomputation of the next bell the stored next_bell is not a disabled bell.
DisabledBellsSkipped ==
    /\ \A j \in 1..Len(trace) :
           (trace[j].ev = "bell_triggered") => trace[j].bell.enabled
    /\ \A i \in 1..Len(bells) :
           ~bells[i].enabled =>
               /\ TriggersOf(trace, bells[i]) = <<>>
               /\ Recomputed => next_bell.obj # bells[i].obj
    /\ Recomputed => (next_bell = None \/ next_bell.enabled)

\* C4 witness: a poll on a disabled bell's day and minute, second 0, in which
\* the bell is not triggered, and a disabled bell scheduled today is due sooner
\* than the next bell the poll stored
DisabledBellsSkippedWitness ==
    /\ op.name = "check_bells"
    /\ \E i \in 1..Len(bells) :
           /\ ~bells[i].enabled
           /\ In(clk.day, bells[i].days)
           /\ hour(bells[i].time) = hour(clk.time)
           /\ minute(bells[i].time) = minute(clk.time)
           /\ second(clk.time) = 0
           /\ TriggersOf(trace, bells[i]) = <<>>
    /\ \E i \in 1..Len(bells) :
           /\ ~bells[i].enabled
           /\ In(clk.nbDay, bells[i].days)
           /\ CountdownOf(i) > 0
           /\ CountdownOf(i) < seconds_to_next

\* what a recomputation on the list bs at the clock reading c selects: the
\* first candidate of minimum countdown with its countdown, or None with inf
SelectedAt(bs, c) ==
    LET cand == CandidatesAt(bs, c)
        left(i) == seconds_until_time(c.nbTime, bs[i].time)
    IN  IF cand = {}
        THEN [bell |-> None, secs |-> inf]
        ELSE LET i == CHOOSE i \in cand :
                          \A j \in cand :
                              /\ left(j) >= left(i)
                              /\ (left(j) = left(i)) => j >= i
             IN  [bell |-> bs[i], secs |-> left(i)]

Selected == SelectedAt(bells, clk)

\* the next_bell_changed signals of a trace
ChangesIn(tr) == SelectSeq(tr, LAMBDA e : e.ev = "next_bell_changed")

SaveFailureNonFatal ==
    /\ (IsMutation(op) /\ op.disk # "ok") =>
           /\ ~HasEvent(trace, "raise")
           /\ HasEvent(trace, "bell_updated")
           /\ next_bell = Selected.bell
    /\ (IsMutation(op) /\ op.disk = "ok") => file = Records(bells_data(bells))

\* C7 as stated: load_bells on a file that exists and does not parse ends with
\* the seven default bells in memory and the next bell recomputed, and raises
\* nothing, whether or not the write of the default set succeeds.
CorruptStoreFallsBack ==
    [][(phase = "new" /\ file = Corrupt /\ op'.name = "load_bells") =>
          /\ bells' = default_bells
          /\ ~HasEvent(trace', "raise")
          /\ phase' = "running"
          /\ next_bell' = SelectedAt(bells', clk').bell]_vars

\* a record from_dict cannot turn into a bell with a time of day
Malformed(rec) ==
    \/ "name" \notin rec.keys
    \/ "time" \notin rec.keys
    \/ fromString(rec.time) = InvalidTime

\* the bells of the records recs are in bs, in the order of recs
LoadedInOrder(recs, bs) ==
    \E f \in [1..Len(recs) -> 1..Len(bs)] :
        /\ \A m, n \in 1..Len(recs) : m < n => f[m] < f[n]
        /\ \A n \in 1..Len(recs) :
               /\ bs[f[n]].name = recs[n].name
               /\ bs[f[n]].time = fromString(recs[n].time)

\* C8 as stated: loading a record list with one malformed record skips or
\* defaults that record only; the other records are loaded in file order and the
\* list is not replaced by the default set.
MalformedRecordSkipped ==
    [][(/\ phase = "new"
        /\ file.kind = "list"
        /\ op'.name = "load_bells"
        /\ Cardinality({n \in 1..Len(file.recs) : Malformed(file.recs[n])}) = 1) =>
          /\ Len(bells') <= Len(file.recs)
          /\ LoadedInOrder(SelectSeq(file.recs, LAMBDA r : ~Malformed(r)), bells')]_vars

\* C9 as stated: update_bell and remove_bell with an id no bell has raise
\* nothing, leave the bell list as it was and leave the content of the bells
\* file as it was.
UnknownIdIsNoOp ==
    [][(/\ phase = "running"
        /\ op'.name \in {"update_bell", "remove_bell"}
        /\ \A n \in 1..Len(bells) : bells[n].id # op'.id) =>
          /\ ~HasEvent(trace', "raise")
          /\ bells' = bells
          /\ file' = file]_vars

\* the list bs without its element at position n
Without(bs, n) == SubSeq(bs, 1, n - 1) \o SubSeq(bs, n + 1, Len(bs))

\* the position of the first bell of bs with that id, 0 if there is none
FirstWithId(bs, bell_id) ==
    IF \E n \in 1..Len(bs) : bs[n].id = bell_id
    THEN CHOOSE n \in 1..Len(bs) :
             bs[n].id = bell_id /\ \A m \in 1..(n - 1) : bs[m].id # bell_id
    ELSE 0

\* C10 as stated: update_bell replaces the first bell with the id and
\* remove_bell removes the first bell with the id; every other bell, later
\* bells with the same id included, stays where it was.
FirstMatchOnly ==
    [][(phase = "running" /\ op'.name \in {"update_bell", "remove_bell"}) =>
          LET n == FirstWithId(bells, op'.id)
          IN  IF n = 0 THEN bells' = bells
              ELSE IF op'.name = "update_bell"
                   THEN bells' = [bells EXCEPT ![n] = op'.bell]
                   ELSE bells' = Without(bells, n)]_vars

\* the positions of the records of a bells file whose days list is present and
\* empty
EmptyDaysPositions(f) ==
    {n \in 1..Len(f.recs) : "days" \in f.recs[n].keys /\ f.recs[n].days = <<>>}

\* C11 as stated: a bell specified with an empty days list keeps it empty and is
\* never triggered: the bell an add_bell received, had it been constructed with
\* days=[], has no days; and while the bells file still holds the records the
\* list was loaded from, the bell loaded from a record with an empty days list
\* has no days and is not triggered by any poll.
EmptyDaysInert ==
    /\ (op.name = "add_bell") =>
           Bell(op.bell.obj, op.bell.name, op.bell.time, <<>>, op.bell.enabled).days = <<>>
    /\ (/\ phase = "running"
        /\ op.name \in {"load_bells", "check_bells"}
        /\ file.kind = "list"
        /\ Len(file.recs) = Len(bells)) =>
           \A n \in EmptyDaysPositions(file) :
               /\ bells[n].days = <<>>
               /\ TriggersOf(trace, bells[n]) = <<>>

\* two bells agree in every field (the identity of the Python object aside)
SameFields(a, b) ==
    /\ a.name = b.name
    /\ a.time = b.time
    /\ a.days = b.days
    /\ a.enabled = b.enabled
    /\ a.id = b.id

\* C12 as stated: saving the in-memory list and loading the saved file gives a
\* list of the same length in which the bell at every position agrees with the
\* original in every field.
RoundTrip ==
    (phase = "running") =>
        LET saved == save_bells(bells, file, "ok").file
            back == loaded_bells(saved)
        IN  /\ ~load_uses_defaults(saved)
            /\ Len(back) = Len(bells)
            /\ \A n \in 1..Len(bells) : SameFields(back[n], bells[n])

\* C13 as stated: after load_bells has loaded the records of the bells file, the
\* id of the bell at every position is the id stored in its record (records
\* with a time of day that parses).
IdStable ==
    (/\ phase = "running"
     /\ op.name = "load_bells"
     /\ file.kind = "list"
     /\ Len(file.recs) = Len(bells)) =>
        \A n \in 1..Len(file.recs) :
            ("id" \in file.recs[n].keys /\ fromString(file.recs[n].time) # InvalidTime) =>
                bells[n].id = file.recs[n].id

\* the last handler wrote the bells file and returned: a mutation that did not
\* raise, or a load_bells that seeded the default set and did not raise
CompletedWrite ==
    /\ ~HasEvent(trace, "raise")
    /\ \/ IsMutation(op)
       \/ op.name = "load_bells" /\ phase = "running" /\ bells = default_bells

\* the bells file holds one record per in-memory bell, in list order, and each
\* record is that bell's
Mirrors(f, bs) ==
    /\ f.kind = "list"
    /\ Len(f.recs) = Len(bs)
    /\ \A n \in 1..Len(bs) : f.recs[n] = to_dict(bs[n])

\* C14. Durable mirror: after every add_bell, update_bell or remove_bell that
\* completed, and after load_bells seeded the default set, the handler has
\* written the bells file and the file holds the in-memory list, bell for bell
\* in the same order.
DurableMirror ==
    CompletedWrite => (HasEvent(trace, "save") /\ Mirrors(file, bells))

\* C14 witness: a mutation completed after an earlier write had failed, and the
\* file holds the two bells of the list
DurableMirrorWitness ==
    /\ IsMutation(op)
    /\ ~HasEvent(trace, "raise")
    /\ failures = 1
    /\ Len(bells) = 2
    /\ HasEvent(trace, "save")
    /\ Mirrors(file, bells)

\* C15. Order of a mutation: the handler's steps are the save, then at most one
\* next_bell_changed (carrying the stored next bell and countdown), then
\* bell_updated, last; at that point the list holds the mutation (the added
\* bell is last in the list, no bell has the removed id), the file holds the
\* list and the stored next bell is the one selected from the list.
MutationOrder ==
    IsMutation(op) =>
        LET n == Len(trace)
        IN  /\ n \in {2, 3}
            /\ trace[1] = Saved
            /\ trace[n] = BellUpdated
            /\ (n = 3) => trace[2] = NextBellChanged(next_bell, seconds_to_next)
            /\ (op.name = "add_bell") =>
                   (Len(bells) >= 1 /\ bells[Len(bells)] = op.bell)
            /\ (op.name = "remove_bell") =>
                   \A m \in 1..Len(bells) : bells[m].id # op.id
            /\ Mirrors(file, bells)
            /\ next_bell = Selected.bell
            /\ seconds_to_next = Selected.secs

\* C15 witness: an add_bell saved, then emitted next_bell_changed for the bell it
\* added, then emitted bell_updated
MutationOrderWitness ==
    /\ op.name = "add_bell"
    /\ next_bell = op.bell
    /\ trace = <<Saved, NextBellChanged(op.bell, seconds_to_next), BellUpdated>>
    /\ Mirrors(file, bells)

\* x - 1 on a countdown: float('inf') - 1 is float('inf')
Minus1(x) == IF x = inf THEN inf ELSE x - 1

\* the clock reading t is the minute of the bell b, at second 0
ReachedAt(b, t) ==
    /\ hour(b.time) = hour(t)
    /\ minute(b.time) = minute(t)
    /\ second(t) = 0

\* C16 as stated: of two consecutive polls that read the clock at t and at
\* t + 1 second of the same day, the second leaves seconds_to_next one less than
\* the first left it, unless t + 1 is the time of the next bell the first poll
\* stored.
MonotonicCountdown ==
    [][(/\ op.name = "check_bells"
        /\ op'.name = "check_bells"
        /\ clk'.nbDay = clk.nbDay
        /\ clk'.nbTime = clk.nbTime + 1) =>
          \/ next_bell # None /\ ReachedAt(next_bell, clk'.nbTime)
          \/ seconds_to_next' = Minus1(seconds_to_next)]_vars

\* C17 as stated: for the clock reading of every recomputation and every bell
\* with a time of day, seconds_until_time lies in 1..86400, and it is 86400 when
\* the reading is the bell's minute at second 0.
SecondsUntilWrapsAtZero ==
    Recomputed =>
        \A n \in 1..Len(bells) :
            (bells[n].time # InvalidTime) =>
                /\ CountdownOf(n) \in 1..SecondsPerDay
                /\ ReachedAt(bells[n], clk.nbTime) => CountdownOf(n) = SecondsPerDay

\* the start of the minute of a bell, in seconds of the day
MinuteStart(b) == QTime(hour(b.time), minute(b.time))

\* the list is one enabled bell at 00:05 scheduled on the weekday read, and the
\* clock read 23:59:00
OneBellBeforeMidnight ==
    /\ Len(bells) = 1
    /\ bells[1].enabled
    /\ MinuteStart(bells[1]) = QTime(0, 5)
    /\ In(clk.nbDay, bells[1].days)
    /\ clk.nbTime = QTime(23, 59)

\* C18. Midnight wraparound: for the clock reading c of every recomputation and
\* every bell whose minute starts at s < c, seconds_until_time is s - c + 86400,
\* and no countdown is negative; with a single enabled bell at 00:05 scheduled
\* today and the clock at 23:59:00, seconds_to_next is 360.
MidnightWraparound ==
    Recomputed =>
        /\ \A n \in 1..Len(bells) :
               (bells[n].time # InvalidTime) =>
                   /\ CountdownOf(n) >= 0
                   /\ (MinuteStart(bells[n]) < clk.nbTime) =>
                          CountdownOf(n) = MinuteStart(bells[n]) - clk.nbTime + SecondsPerDay
        /\ OneBellBeforeMidnight => (next_bell = bells[1] /\ seconds_to_next = 360)

\* C18 witness: a poll at 23:59:00 with the single bell at 00:05 stored it as
\* the next bell, 360 seconds away
MidnightWraparoundWitness ==
    /\ op.name = "check_bells"
    /\ OneBellBeforeMidnight
    /\ next_bell = bells[1]
    /\ seconds_to_next = 360

\* the last handler is a poll of the seven seed bells whose clock reads all
\* gave Wednesday 09:00:00
SeedsPolledWednesdayAtNine ==
    /\ op.name = "check_bells"
    /\ bells = default_bells
    /\ clk = [time |-> QTime(9, 0), day |-> "Wednesday",
              nbTime |-> QTime(9, 0), nbDay |-> "Wednesday"]

\* C19. Default-schedule scenario: a poll of the seed schedule on Wednesday at
\* 09:00:00 emits bell_triggered for "School Start" and for no other bell, and
\* leaves next_bell = "Period 1" with seconds_to_next = 5400.
DefaultScheduleScenario ==
    SeedsPolledWednesdayAtNine =>
        /\ \E b \in {bells[n] : n \in 1..Len(bells)} :
               /\ b.name = "School Start"
               /\ SelectSeq(trace, LAMBDA e : e.ev = "bell_triggered") = <<BellTriggered(b)>>
        /\ next_bell.name = "Period 1"
        /\ In(next_bell, bells)
        /\ seconds_to_next = 5400

\* C19 witness: that poll has happened and emitted next_bell_changed for
\* "Period 1"
DefaultScheduleScenarioWitness ==
    /\ SeedsPolledWednesdayAtNine
    /\ Len(trace) = 2
    /\ trace[1].ev = "bell_triggered"
    /\ trace[1].bell.name = "School Start"
    /\ trace[2].ev = "next_bell_changed"
    /\ trace[2].bell.name = "Period 1"
    /\ trace[2].secs = 5400

\* the seed schedule in words: names and times in order
SeedNames ==
    <<"School Start", "Period 1", "Break", "Period 2", "Lunch", "Period 3", "End of Day">>
SeedTimes ==
    <<QTime(9, 0), QTime(10, 30), QTime(11, 20), QTime(11, 35), QTime(12, 25),
      QTime(13, 10), QTime(14, 0)>>

IsSeedList(bs) ==
    /\ Len(bs) = 7
    /\ \A n \in 1..7 :
           /\ bs[n].name = SeedNames[n]
           /\ bs[n].time = SeedTimes[n]
           /\ bs[n].enabled
           /\ bs[n].days = <<"Monday", "Tuesday", "Wednesday", "Thursday", "Friday">>

\* C20. First run: load_bells with no bells file makes the list the seven seed
\* bells in order, each enabled on Monday..Friday, and writes them to the file
\* before anything else; load_bells on a file whose records all load does not
\* write the file.
FirstRunSeeds ==
    [][(phase = "new" /\ op'.name = "load_bells") =>
          /\ (file = Absent) =>
                 /\ phase' = "running"
                 /\ IsSeedList(bells')
                 /\ Len(trace') >= 1
                 /\ trace'[1] = Saved
                 /\ Mirrors(file', bells')
          /\ (file.kind = "list" /\ ~load_uses_defaults(file)) =>
                 /\ file' = file
                 /\ ~HasEvent(trace', "save")
                 /\ Len(bells') = Len(file.recs)]_vars

\* C20 witness: load_bells has seeded the seven bells and saved them
FirstRunSeedsWitness ==
    /\ op.name = "load_bells"
    /\ phase = "running"
    /\ IsSeedList(bells)
    /\ trace[1] = Saved
    /\ Mirrors(file, bells)

\* C21 as stated: every bell of the scheduler's list has a time of day with an
\* hour in 0..23 and a minute in 0..59, whatever records were loaded.
ValidTimeOfDay ==
    \A n \in 1..Len(bells) :
        /\ hour(bells[n].time) \in 0..23
        /\ minute(bells[n].time) \in 0..59
        /\ hour(bells[n].time) * 60 + minute(bells[n].time) \in 0..1439

\* C22. A missed tick is not retried: every bell_triggered of a poll is emitted
\* at second 0 of the bell's minute on one of its days, so every recorded firing
\* of a bell is at second 0 of its minute: when no poll read second 0 of that
\* minute, no later poll fires the bell for it.
MissedTickNotRetried ==
    /\ (op.name = "check_bells") =>
           \A i \in 1..Len(bells) :
               (TriggersOf(trace, bells[i]) # <<>>) =>
                   (ReachedAt(bells[i], clk.time) /\ In(clk.day, bells[i].days))
    /\ \A i \in 1..Len(fired) :
           \A j \in 1..Len(fired[i]) :
               ReachedAt(bells[i], fired[i][j]) /\ In(RunDay, bells[i].days)

\* C22 witness: the minute of an enabled bell scheduled today has gone by, the
\* timeout of its second 0 was missed, later seconds of the minute were polled,
\* and the bell has not fired
MissedTickNotRetriedWitness ==
    /\ polls > 60
    /\ op.name = "check_bells"
    /\ \E i \in 1..Len(bells) :
           /\ bells[i].enabled
           /\ In(RunDay, bells[i].days)
           /\ MinuteStart(bells[i]) = 0
           /\ fired[i] = <<>>

\* C26 as stated: whatever the pattern of polls, a bell is triggered at most
\* once in a matching minute: no two recorded firings of a bell are in the same
\* minute of the day.
AtMostOncePerMinute ==
    \A i \in 1..Len(fired) :
        \A a, b \in 1..Len(fired[i]) :
            (a # b) =>
                \/ hour(fired[i][a]) # hour(fired[i][b])
                \/ minute(fired[i][a]) # minute(fired[i][b])

\* C23 as stated: a handler that calls save_bells, however the write ends,
\* leaves in the bells file either the content it had before or the complete
\* new list, never an empty or partly written file.
SaveIsAtomic ==
    [][(op'.name \in {"load_bells", "add_bell", "update_bell", "remove_bell"}) =>
          \/ file' = file
          \/ Mirrors(file', bells')]_vars

\* C24 as stated: a poll reads the clock once: the recomputation of the next
\* bell uses the time and the weekday the trigger test used, and that time and
\* weekday are those of one instant at which the timer fired.
SingleClockReading ==
    (op.name = "check_bells") =>
        /\ clk.nbTime = clk.time
        /\ clk.nbDay = clk.day
        /\ [day |-> clk.day, secs |-> clk.time] \in Instants

\* the instant d seconds (d at most a day) after second t of the weekday day
Later(day, t, d) ==
    IF t + d >= SecondsPerDay
    THEN [day |-> NextDay(day), secs |-> t + d - SecondsPerDay]
    ELSE [day |-> day, secs |-> t + d]

\* the seconds, in 1..86400, from second t of a day to the next start of the
\* minute of the bell b
DelayTo(b, t) ==
    LET d == (MinuteStart(b) - t) % SecondsPerDay
    IN  IF d = 0 THEN SecondsPerDay ELSE d

\* C25 as stated: when a recomputation has stored the next bell B with
\* seconds_to_next = s, the poll made s seconds after the clock reading of the
\* recomputation triggers B, and no bell of the list is triggered by a poll
\* made sooner than that, whether or not the s seconds cross midnight (next
\* bells with a time of day).
PredictionSound ==
    (Recomputed /\ next_bell # None /\ next_bell.time # InvalidTime) =>
        LET due == Later(clk.nbDay, clk.nbTime, seconds_to_next)
        IN  /\ is_triggered(next_bell, due.secs, due.day)
            /\ \A n \in 1..Len(bells) :
                   (/\ bells[n].time # InvalidTime
                    /\ DelayTo(bells[n], clk.nbTime) < seconds_to_next) =>
                       LET sooner == Later(clk.nbDay, clk.nbTime,
                                           DelayTo(bells[n], clk.nbTime))
                       IN  ~is_triggered(bells[n], sooner.secs, sooner.day)

\* C27 as stated: once the scheduler is constructed, the stored next_bell is
\* None or an enabled bell that is an element of the bell list, and
\* seconds_to_next is an integer in 1..86399 exactly when next_bell is a bell.
NextBellInList ==
    (phase = "running") =>
        /\ \/ next_bell = None
           \/ /\ next_bell.enabled
              /\ \E n \in 1..Len(bells) : bells[n].obj = next_bell.obj
        /\ (next_bell # None) <=> (seconds_to_next \in 1..(SecondsPerDay - 1))

\* C28 as stated: at most one playback thread is between its playback_started
\* and its playback_stopped or playback_error.
OnePlaybackAtATime ==
    Cardinality({t \in 1..Len(player.threads) : LivePlayback(t)}) <= 1

\* C29 as stated: from configure_exam to the next clear_timers,
\* play_warning_bell is called at most once.
WarningBellOnce ==
    (~exam.configure_enabled) => exam.warnings <= 1

\* C30 as stated: every key k of zones maps to a zone whose id is k, and the
\* map has the keys of the map that saving and reloading the zones file gives.
ZoneMapKeyedById ==
    /\ \A i \in 1..Len(zone.zones) : zone.zones[i].zone.id = zone.zones[i].key
    /\ ZoneKeys(load_zones(<<>>, zone.zones_file)) = ZoneKeys(zone.zones)

====
